---- MODULE Spec2Model ----
\* A model of qr.py: one Streamlit script (main) that is re-run from the top on
\* every user interaction, the encoder adapter generate_qr_code and the
\* export helper get_image_download_link.
\*
\* Text is modelled by TLA+ strings; strip() and lower() are computed character
\* by character.  The qrcode and PIL libraries are outside the repository: the
\* encoder is modelled by its documented outcome (an image, or an exception),
\* PNG serialisation and base64 by injective textual encodings, and every
\* library call may also raise for lack of resources (MemoryError).
EXTENDS Naturals, Sequences, TLC

VARIABLES
    user_input,     \* value of the text area (main, line 77)
    size_option,    \* value of the select box (main, line 90)
    border,         \* value of the slider (main, line 107)
    pc,             \* position of the script run inside main
    rendered,       \* the elements the current run has put on the page, in order
    calls,          \* the invocations of generate_qr_code in the current run
    qr_img,         \* main's local holding the encoder's result (qr_img / example_qr)
    exc,            \* the exception main's try block is unwinding with, or None
    faults,         \* the library calls that raised in the current run
    snap            \* history variable: a completed run kept for comparison

vars == <<user_input, size_option, border, pc, rendered, calls, qr_img, exc, faults, snap>>

widgets == <<user_input, size_option, border>>

-----------------------------------------------------------------------------
\* Bounds and input domains

MaxLen == 2

Chars == {" ", "a"}

Whitespace == {" ", "\t", "\n", "\r"}

\* Largest byte-mode payload of a version 40 symbol at error correction L.
Capacity == 2953

RECURSIVE Repeat(_, _)
Repeat(s, n) ==
    IF n = 0 THEN ""
    ELSE LET h == Repeat(s, n \div 2)
         IN  IF n % 2 = 0 THEN h \o h ELSE h \o h \o s

RECURSIVE StringsOfLen(_)
StringsOfLen(n) ==
    IF n = 0 THEN {""}
    ELSE {s \o c : s \in StringsOfLen(n - 1), c \in Chars}

\* A payload one byte longer than any symbol version can hold.
LongText == Repeat("a", Capacity + 1)

Texts == UNION {StringsOfLen(n) : n \in 0..MaxLen} \cup {LongText}

SizeOptions == <<"Small", "Medium", "Large", "Extra Large">>

SizeLabels == {SizeOptions[i] : i \in 1..Len(SizeOptions)}

BorderMin == 1

BorderMax == 10

BorderDefault == 4

\* The slider values tried: the default and the largest.
Borders == {b \in BorderMin..BorderMax : b = BorderDefault \/ b = BorderMax}

None == [none |-> TRUE]

-----------------------------------------------------------------------------
\* Pure helpers

RECURSIVE LStrip(_)
LStrip(s) ==
    IF s = "" THEN s
    ELSE IF SubSeq(s, 1, 1) \in Whitespace THEN LStrip(SubSeq(s, 2, Len(s)))
    ELSE s

RECURSIVE RStrip(_)
RStrip(s) ==
    IF s = "" THEN s
    ELSE IF SubSeq(s, Len(s), Len(s)) \in Whitespace
         THEN RStrip(SubSeq(s, 1, Len(s) - 1))
    ELSE s

StripNoTrim(s) == s

Strip(s) == RStrip(LStrip(s))

LowerChar(c) ==
    CASE c = "A" -> "a" [] c = "B" -> "b" [] c = "C" -> "c" [] c = "D" -> "d"
      [] c = "E" -> "e" [] c = "F" -> "f" [] c = "G" -> "g" [] c = "H" -> "h"
      [] c = "I" -> "i" [] c = "J" -> "j" [] c = "K" -> "k" [] c = "L" -> "l"
      [] c = "M" -> "m" [] c = "N" -> "n" [] c = "O" -> "o" [] c = "P" -> "p"
      [] c = "Q" -> "q" [] c = "R" -> "r" [] c = "S" -> "s" [] c = "T" -> "t"
      [] c = "U" -> "u" [] c = "V" -> "v" [] c = "W" -> "w" [] c = "X" -> "x"
      [] c = "Y" -> "y" [] c = "Z" -> "z" [] OTHER -> c

RECURSIVE Lower(_)
Lower(s) ==
    IF s = "" THEN ""
    ELSE LowerChar(SubSeq(s, 1, 1)) \o Lower(SubSeq(s, 2, Len(s)))

size_mapping_large_as_medium(label) ==
    CASE label = "Small" -> 5
      [] label = "Medium" -> 10
      [] label = "Large" -> 10
      [] label = "Extra Large" -> 20

size_mapping(label) ==
    CASE label = "Small" -> 5
      [] label = "Medium" -> 10
      [] label = "Large" -> 15
      [] label = "Extra Large" -> 20

example_text == "Hello, World! This is a sample QR code."

\* Page elements: st.<kind>(body, ...)
St(kind, body) == [kind |-> kind, body |-> body]

\* st.image(buffer, caption=..., use_column_width=True)
StImageColumn(buffer, caption) ==
    [kind |-> "image", body |-> buffer, caption |-> caption,
     use_column_width |-> TRUE]

\* st.image(buffer, caption=..., width=...)
StImageWidth(buffer, caption, width) ==
    [kind |-> "image", body |-> buffer, caption |-> caption, width |-> width]

StHtml(body) == [kind |-> "markdown", body |-> body, unsafe_allow_html |-> TRUE]

StExpander(label, code) == [kind |-> "expander", body |-> label, code |-> code]

\* Exceptions and str(e).  The message texts belong to the libraries; the ones
\* here stand for them.
DataOverflowError == [type |-> "DataOverflowError", msg |-> "Code length overflow"]

MemoryError == [type |-> "MemoryError", msg |-> "out of memory"]

ValueError == [type |-> "ValueError", msg |-> "Invalid box size or border"]

Str(e) == e.msg

-----------------------------------------------------------------------------
\* Encoder adapter

\* qrcode.QRCode(...), add_data, make(fit=True), make_image: an image of the
\* payload, or the exception the library raises.
QRCode(data, size, bord, fault) ==
    IF size <= 0 \/ bord < 0 THEN [ok |-> FALSE, e |-> ValueError]
    ELSE IF Len(data) > Capacity THEN [ok |-> FALSE, e |-> DataOverflowError]
    ELSE IF fault THEN [ok |-> FALSE, e |-> MemoryError]
    ELSE [ok |-> TRUE,
          img |-> [data |-> data, box_size |-> size, border |-> bord,
                   fill_color |-> "black", back_color |-> "white"]]

generate_qr_code_uncaught(data, size, bord, fault) ==
    LET r == QRCode(data, size, bord, fault)
    IN  IF r.ok
        THEN [img |-> r.img, out |-> <<>>, exc |-> None,
              faults |-> <<>>]
        ELSE [img |-> None, out |-> <<>>, exc |-> r.e,
              faults |-> <<[at |-> "encoder", e |-> r.e]>>]

\* generate_qr_code: the image, or None after showing the error.  No exception
\* leaves it (exc is None).
generate_qr_code(data, size, bord, fault) ==
    LET r == QRCode(data, size, bord, fault)
    IN  IF r.ok
        THEN [img |-> r.img, out |-> <<>>, exc |-> None,
              faults |-> <<>>]
        ELSE [img |-> None,
              out |-> <<St("error", "Error generating QR code: " \o Str(r.e))>>,
              exc |-> None,
              faults |-> <<[at |-> "encoder", e |-> r.e]>>]

-----------------------------------------------------------------------------
\* Image export

\* img.save(buffer, format="PNG"): the PNG bytes of the image.
PNG(img) ==
    "PNG[" \o img.data \o "|" \o ToString(img.box_size) \o "|"
           \o ToString(img.border) \o "]"

b64encode(bytes) == "b64[" \o bytes \o "]"

get_image_download_link_default_name(img, filename) ==
    "<a href=\"data:image/png;base64," \o b64encode(PNG(img))
        \o "\" download=\"" \o "qrcode.png" \o "\">Download QR Code</a>"

get_image_download_link(img, filename) ==
    "<a href=\"data:image/png;base64," \o b64encode(PNG(img))
        \o "\" download=\"" \o filename \o "\">Download QR Code</a>"

-----------------------------------------------------------------------------
\* Presentation layer: main.  Emoji are written as their shortcodes.

\* Lines 63-116: page configuration, title, the three widgets' sections.
PageTop ==
    << St("title", ":iphone: QR Code Generator"),
       St("markdown", "Generate QR codes from any text, URL, or data!"),
       St("header", "Input"),
       St("header", "Customization"),
       St("header", "Generated QR Code") >>

Init ==
    /\ user_input = ""
    /\ size_option = SizeOptions[2]
    /\ border = BorderDefault
    /\ pc = "start"
    /\ rendered = <<>>
    /\ calls = <<>>
    /\ qr_img = None
    /\ exc = None
    /\ faults = <<>>
    /\ snap = None

\* The script starts: lines 63-118, up to the test of the stripped input.
Page ==
    /\ pc = "start"
    /\ rendered' = rendered \o PageTop
    /\ pc' = IF Strip(user_input) # "" THEN "generate" ELSE "example"
    /\ UNCHANGED <<user_input, size_option, border, calls, qr_img, exc, faults, snap>>

AfterGenerate_fallback_to_example(img) ==
    IF img # None THEN "display" ELSE "example"

\* Line 125: if qr_img.
AfterGenerate(img) ==
    IF img # None THEN "display" ELSE "footer"

\* Lines 119-125: the encoder is called on the user's text.
Generate ==
    /\ pc = "generate"
    /\ \E fault \in BOOLEAN :
         LET box_size == size_mapping(size_option)
             r == generate_qr_code(user_input, box_size, border, fault)
         IN  /\ calls' = Append(calls, [data |-> user_input, size |-> box_size,
                                        border |-> border])
             /\ rendered' = rendered \o r.out
             /\ faults' = faults \o r.faults
             /\ qr_img' = r.img
             /\ exc' = r.exc
             /\ pc' = IF r.exc # None THEN "except" ELSE AfterGenerate(r.img)
    /\ UNCHANGED <<user_input, size_option, border, snap>>

\* Lines 127-132: the image is serialised and shown.
Display ==
    /\ pc = "display"
    /\ \E fault \in BOOLEAN :
         IF fault
         THEN /\ exc' = MemoryError
              /\ faults' = Append(faults, [at |-> "save", e |-> MemoryError])
              /\ pc' = "except"
              /\ UNCHANGED rendered
         ELSE /\ rendered' = Append(rendered,
                    StImageColumn(PNG(qr_img), "Your QR Code"))
              /\ pc' = "download"
              /\ UNCHANGED <<exc, faults>>
    /\ UNCHANGED <<user_input, size_option, border, calls, qr_img, snap>>

\* Lines 135-139: the download link is built and shown.
Download ==
    /\ pc = "download"
    /\ \E fault \in BOOLEAN :
         LET head == Append(rendered, St("markdown", "### Download"))
             filename == "qrcode_" \o Lower(size_option) \o ".png"
         IN  IF fault
             THEN /\ exc' = MemoryError
                  /\ faults' = Append(faults, [at |-> "link", e |-> MemoryError])
                  /\ pc' = "except"
                  /\ rendered' = head
             ELSE /\ rendered' = Append(head,
                        StHtml(get_image_download_link(qr_img, filename)))
                  /\ pc' = "info"
                  /\ UNCHANGED <<exc, faults>>
    /\ UNCHANGED <<user_input, size_option, border, calls, qr_img, snap>>

SuccessInfo_echo_stripped(text, label, bord) ==
    << St("info", ":white_check_mark: QR Code generated successfully! Size: "
                    \o label \o ", Border: " \o ToString(bord)),
       StExpander("Preview Input Data", Strip(text)) >>

\* Lines 142-146: the success note and the echo of the input.
SuccessInfo(text, label, bord) ==
    << St("info", ":white_check_mark: QR Code generated successfully! Size: "
                    \o label \o ", Border: " \o ToString(bord)),
       StExpander("Preview Input Data", text) >>

Info ==
    /\ pc = "info"
    /\ rendered' = rendered \o SuccessInfo(user_input, size_option, border)
    /\ pc' = "footer"
    /\ UNCHANGED <<user_input, size_option, border, calls, qr_img, exc, faults, snap>>

\* Lines 148-150: main's except clause.
HandleError ==
    /\ pc = "except"
    /\ rendered' = rendered \o
          << St("error", ":x: Error generating QR code: " \o Str(exc)),
             St("info", "Please check your input and try again.") >>
    /\ exc' = None
    /\ pc' = "footer"
    /\ UNCHANGED <<user_input, size_option, border, calls, qr_img, faults, snap>>

ExampleSize == 10

ExampleBorder == 4

ExampleWidth == 300

ExampleArgs_from_widgets(box_size, bord) ==
    [data |-> example_text, size |-> box_size, border |-> bord]

\* Line 159: the arguments of the example's encoder call; the widgets' values
\* are not used.
ExampleArgs(box_size, bord) ==
    [data |-> example_text, size |-> ExampleSize, border |-> ExampleBorder]

\* Lines 152-166: the placeholder and the example code.  The call is outside
\* main's try block: an exception leaving generate_qr_code ends the script.
Example ==
    /\ pc = "example"
    /\ \E fault \in BOOLEAN :
         LET a == ExampleArgs(size_mapping(size_option), border)
             r == generate_qr_code(a.data, a.size, a.border, fault)
             head == rendered \o
                 << St("info", ":point_up_2: Enter some text above to generate your QR code"),
                    St("markdown", "### Example") >> \o r.out
         IN  /\ calls' = Append(calls, a)
             /\ faults' = faults \o r.faults
             /\ qr_img' = r.img
             /\ exc' = r.exc
             /\ IF r.exc # None
                THEN /\ pc' = "crashed"
                     /\ rendered' = head
                ELSE /\ pc' = "footer"
                     /\ rendered' =
                          IF r.img # None
                          THEN head \o
                               << StImageWidth(PNG(r.img), "Example QR Code", ExampleWidth),
                                  St("caption", "This is what your QR code will look like") >>
                          ELSE head
    /\ UNCHANGED <<user_input, size_option, border, snap>>

\* Lines 168-184: usage tips and about text.
PageBottom ==
    << St("markdown", "---"),
       St("markdown", "### :bulb: Usage Tips"),
       St("markdown", "URLs, Contact Info, WiFi, Email, Phone"),
       St("markdown", "### :information_source: About"),
       St("markdown", "This QR code generator creates high-quality QR codes") >>

Footer ==
    /\ pc = "footer"
    /\ rendered' = rendered \o PageBottom
    /\ pc' = "done"
    /\ UNCHANGED <<user_input, size_option, border, calls, qr_img, exc, faults, snap>>

Rerun_keeping_output ==
    /\ pc \in {"done", "crashed"}
    /\ pc' = "start"
    /\ rendered' = rendered
    /\ calls' = <<>>
    /\ qr_img' = None
    /\ exc' = None
    /\ faults' = <<>>

\* A widget event makes Streamlit run the script again from the top, with an
\* empty page and fresh locals.  Events are taken between runs only.
Rerun ==
    /\ pc \in {"done", "crashed"}
    /\ pc' = "start"
    /\ rendered' = <<>>
    /\ calls' = <<>>
    /\ qr_img' = None
    /\ exc' = None
    /\ faults' = <<>>

\* The user commits the text area (line 77).
SetText(t) ==
    /\ Rerun
    /\ user_input' = t
    /\ UNCHANGED <<size_option, border, snap>>

\* The user picks a size (line 90).
SetSize(s) ==
    /\ Rerun
    /\ size_option' = s
    /\ UNCHANGED <<user_input, border, snap>>

\* The user moves the border slider (line 107).
SetBorder(b) ==
    /\ Rerun
    /\ border' = b
    /\ UNCHANGED <<user_input, size_option, snap>>

\* What a completed run showed and did, with the widget values it ran on.
RunRecord ==
    [w |-> widgets, out |-> rendered, calls |-> calls, faults |-> faults]

\* History: one completed run is kept, to compare later runs with.
Remember ==
    /\ pc = "done"
    /\ snap = None
    /\ snap' = RunRecord
    /\ UNCHANGED <<user_input, size_option, border, pc, rendered, calls, qr_img, exc, faults>>

Script == Page \/ Generate \/ Display \/ Download \/ Info \/ HandleError \/ Example \/ Footer

Next ==
    \/ Page
    \/ Generate
    \/ Display
    \/ Download
    \/ Info
    \/ HandleError
    \/ Example
    \/ Footer
    \/ \E t \in Texts : SetText(t)
    \/ \E s \in SizeLabels : SetSize(s)
    \/ \E b \in Borders : SetBorder(b)

Spec == Init /\ [][Next]_vars

\* A script run is synchronous: once started it is run to its end.
FairSpec == Init /\ [][Next]_vars /\ WF_vars(Script)

NextHist ==
    \/ Page
    \/ Generate
    \/ Display
    \/ Download
    \/ Info
    \/ HandleError
    \/ Example
    \/ Footer
    \/ \E t \in Texts : SetText(t)
    \/ \E s \in SizeLabels : SetSize(s)
    \/ \E b \in Borders : SetBorder(b)
    \/ Remember

\* The same program, observed with the history variable.
HistSpec == Init /\ [][NextHist]_vars

-----------------------------------------------------------------------------
\* Vocabulary of the properties

\* The text is empty or consists of whitespace only.
IsBlank(s) == \A i \in 1..Len(s) : SubSeq(s, i, i) \in Whitespace

Shown(el) == \E i \in DOMAIN rendered : rendered[i] = el

ShownKind(kind) == \E i \in DOMAIN rendered : rendered[i].kind = kind

IsLink(el) == el.kind = "markdown" /\ "unsafe_allow_html" \in DOMAIN el

LinkShown == \E i \in DOMAIN rendered : IsLink(rendered[i])

EncoderFailed == \E i \in DOMAIN faults : faults[i].at = "encoder"

RetryHint == St("info", "Please check your input and try again.")

FooterShown ==
    /\ Shown(St("markdown", "### :bulb: Usage Tips"))
    /\ Shown(St("markdown", "### :information_source: About"))

\* The error banners that carry the message of exception e.
ErrorBanners(e) ==
    { St("error", "Error generating QR code: " \o e.msg),
      St("error", ":x: Error generating QR code: " \o e.msg) }

-----------------------------------------------------------------------------
\* C1 as stated: in a run whose text is empty or whitespace-only,
\* generate_qr_code is never invoked.
C1_NoEncoderCallOnBlank ==
    IsBlank(user_input) => calls = <<>>

\* C1 as amended: in a run whose text is empty or whitespace-only the encoder
\* is never invoked on the user's text; its only invocation is the one for the
\* fixed example, and the placeholder and example heading are shown.
C1_BlankRunsOnlyTheExample ==
    IsBlank(user_input) =>
        /\ pc \notin {"generate", "display", "download", "info", "except"}
        /\ \A i \in DOMAIN calls :
              calls[i].data = example_text /\ calls[i].data # user_input
        /\ pc \in {"footer", "done"} =>
              /\ Len(calls) = 1
              /\ Shown(St("info", ":point_up_2: Enter some text above to generate your QR code"))
              /\ Shown(St("markdown", "### Example"))

C1_Witness ==
    /\ pc = "done"
    /\ IsBlank(user_input)
    /\ user_input # ""
    /\ Len(calls) = 1

\* C2: in a run with non-empty input in which the encoder raised, the page
\* shows an error banner with the exception's message and the retry hint.
C2_EncoderFailureShowsBannerAndHint ==
    (pc = "done" /\ ~IsBlank(user_input) /\ EncoderFailed) =>
        /\ \E i \in DOMAIN faults :
              /\ faults[i].at = "encoder"
              /\ \E el \in ErrorBanners(faults[i].e) : Shown(el)
        /\ Shown(RetryHint)

\* C3: in a run with non-empty input that shows an error message, no QR image
\* and no download link has been shown.
C3_FailedShowsNoImageNoLink ==
    (~IsBlank(user_input) /\ ShownKind("error")) =>
        /\ ~ShownKind("image")
        /\ ~LinkShown

\* C4: an encoder failure never ends the script; the run it happens in goes on
\* to its end and shows the usage tips and the about text.
C4_EncoderFailureContained ==
    /\ [](pc # "crashed")
    /\ EncoderFailed ~> (pc = "done" /\ EncoderFailed /\ FooterShown)

C4_Witness ==
    /\ pc = "done"
    /\ EncoderFailed
    /\ IsBlank(user_input)
    /\ FooterShown

\* C5 as stated: whenever the encoder succeeded on the user's text, the run
\* shows the bitmap, the download link and the echo of the raw input.
C5_EncoderSuccessDisplaysAll ==
    (pc = "done" /\ ~IsBlank(user_input) /\ qr_img # None) =>
        /\ Shown(StImageColumn(PNG(qr_img), "Your QR Code"))
        /\ LinkShown
        /\ Shown(StExpander("Preview Input Data", user_input))

\* C5 as amended: when the encoder succeeded and no later step of the try block
\* raised, the run shows the bitmap, the download link and the echo of the raw,
\* untrimmed input; when a later step raised, it shows the error banner and the
\* retry hint and neither the success note nor the echo.
C5_SuccessDisplaysUnlessLaterStepRaises ==
    (pc = "done" /\ ~IsBlank(user_input) /\ qr_img # None) =>
        IF faults = <<>>
        THEN /\ Shown(StImageColumn(PNG(qr_img), "Your QR Code"))
             /\ LinkShown
             /\ Shown(StExpander("Preview Input Data", user_input))
             /\ ~ShownKind("error")
        ELSE /\ \E el \in ErrorBanners(faults[1].e) : Shown(el)
             /\ Shown(RetryHint)
             /\ ~ShownKind("expander")

C5_Witness ==
    /\ pc = "done"
    /\ ~IsBlank(user_input)
    /\ SubSeq(user_input, 1, 1) \in Whitespace
    /\ faults = <<>>
    /\ Shown(StExpander("Preview Input Data", user_input))

\* C6: on non-empty input the encoder is invoked with the user's text, the
\* module size the table gives for the selected label (5, 10, 15 or 20) and
\* the slider's border.
C6_EncoderArguments ==
    ~IsBlank(user_input) =>
        /\ pc \in {"display", "download", "info", "except", "footer", "done"} =>
              calls # <<>>
        /\ \A i \in DOMAIN calls :
              /\ calls[i].data = user_input
              /\ calls[i].border = border
              /\ calls[i].size \in {5, 10, 15, 20}
              /\ \/ size_option = "Small" /\ calls[i].size = 5
                 \/ size_option = "Medium" /\ calls[i].size = 10
                 \/ size_option = "Large" /\ calls[i].size = 15
                 \/ size_option = "Extra Large" /\ calls[i].size = 20

C6_Witness ==
    /\ pc = "done"
    /\ ~IsBlank(user_input)
    /\ size_option = "Large"
    /\ border = BorderMax
    /\ calls # <<>>

\* C7: on empty or whitespace-only input the example is generated from the
\* fixed sentence with module size 10 and border 4 and shown 300 wide, whatever
\* the size label and the border slider are.
C7_ExampleIsFixed ==
    IsBlank(user_input) =>
        LET fixed == [data |-> "Hello, World! This is a sample QR code.",
                      size |-> 10, border |-> 4]
            image == [kind |-> "image", caption |-> "Example QR Code", width |-> 300,
                      body |-> "PNG[Hello, World! This is a sample QR code.|10|4]"]
        IN  /\ \A i \in DOMAIN calls : calls[i] = fixed
            /\ \A i \in DOMAIN rendered :
                  rendered[i].kind = "image" => rendered[i] = image
            /\ (pc = "done" /\ faults = <<>>) => Shown(image)

C7_Witness ==
    /\ pc = "done"
    /\ IsBlank(user_input)
    /\ size_option = "Small"
    /\ border = BorderMax
    /\ ShownKind("image")

\* C8 as stated: two completed runs on the same widget values show and do the
\* same.
C8_SameWidgetsSameRun ==
    (pc = "done" /\ snap # None /\ snap.w = widgets) =>
        /\ snap.out = rendered
        /\ snap.calls = calls

\* C8 as amended: two completed runs on the same widget values in which the
\* same library calls raised show and do the same, whatever runs came before
\* either.
C8_SameWidgetsSameFaultsSameRun ==
    (pc = "done" /\ snap # None /\ snap.w = widgets /\ snap.faults = faults) =>
        /\ snap.out = rendered
        /\ snap.calls = calls

C8_Witness ==
    /\ pc = "done"
    /\ snap # None
    /\ snap.w = widgets
    /\ snap.faults = faults
    /\ ~IsBlank(user_input)
    /\ LinkShown

\* C9: the download link is an anchor whose href is a data:image/png;base64
\* URI and whose download name is qrcode_<label in lower case>.png.
C9_DownloadLink ==
    /\ pc \in {"info"} => LinkShown
    /\ \A i \in DOMAIN rendered :
          IsLink(rendered[i]) =>
             LET name == CASE size_option = "Small" -> "qrcode_small.png"
                           [] size_option = "Medium" -> "qrcode_medium.png"
                           [] size_option = "Large" -> "qrcode_large.png"
                           [] size_option = "Extra Large" -> "qrcode_extra large.png"
             IN  rendered[i].body =
                    "<a href=\"data:image/png;base64," \o b64encode(PNG(qr_img))
                       \o "\" download=\"" \o name \o "\">Download QR Code</a>"

C9_Witness ==
    /\ pc = "done"
    /\ size_option = "Extra Large"
    /\ LinkShown

\* C10: within one run the encoder is invoked at most once, and not again
\* after it failed.
C10_NoRetry ==
    /\ Len(calls) <= 1
    /\ EncoderFailed => (Len(calls) = 1 /\ Len(faults) = 1)

C10_Witness ==
    /\ pc = "done"
    /\ ~IsBlank(user_input)
    /\ EncoderFailed
    /\ Len(calls) = 1

====
